---- MODULE Spec2Model ----
(***************************************************************************)
(* A model of run_container.py: the /tts and /speakers handlers of the     *)
(* application built by generate_app, and the helpers they rest on         *)
(* (mora_to_text, get_engine, create_accent_phrases).                      *)
(*                                                                         *)
(* Conventions.                                                            *)
(*  - A Python str is a TLA+ string.  The kana glyphs of the lexicon and   *)
(*    the pause glyph (U+3001) are outside the character set of the        *)
(*    module, so a glyph is written as an ASCII token: "<KA>" for the      *)
(*    katakana KA, "," for the pause glyph.                                *)
(*  - An Optional value is a tuple: None is <<>>, a present value v is     *)
(*    <<v>>.                                                               *)
(*  - Durations and pitches are integers; the float literals of the        *)
(*    AudioQuery are kept as their source text ("1.2", "0.15", "0.1").     *)
(***************************************************************************)
EXTENDS Integers, Sequences, FiniteSets, TLC

VARIABLES
    synthesis_engines,    \* generate_app's argument: core version -> engine
    latest_core_version,  \* generate_app's argument
    pc,                   \* per request: position in its handler
    kind,                 \* per request: "tts" | "speakers" | "none"
    body,                 \* per request: the TTSRequest body (tts)
    core_version,         \* per request: the query parameter (speakers)
    engine,               \* per request: local `engine` (Optional)
    accent_phrases,       \* per request: local `accent_phrases`
    trunc,                \* per request: local `trunc`
    mora_length,          \* per request: local `mora_length`
    cursor,               \* per request: position of the for loop of tts
    query,                \* per request: local `query` (Optional)
    segment_calls,        \* per request: texts handed to the Segmenter
    filler_calls,         \* per request: phrase lists handed to the Filler
    synthesis_calls,      \* per request: the calls of engine.synthesis
    status,               \* per request: HTTP status of the response (0: none yet)
    full_context_label,   \* per request: what the Segmenter yields for body.text
    call                  \* the helper call under test (pure-function runs)

vars == <<synthesis_engines, latest_core_version, pc, kind, body, core_version,
          engine, accent_phrases, trunc, mora_length, cursor, query,
          segment_calls, filler_calls, synthesis_calls, status,
          full_context_label, call>>

app_vars == <<synthesis_engines, latest_core_version>>

request_vars == <<pc, kind, body, core_version, engine, accent_phrases, trunc,
                  mora_length, cursor, query, segment_calls, filler_calls,
                  synthesis_calls, status, full_context_label>>

-----------------------------------------------------------------------------
(* Bounds of the model.                                                    *)

MaxMoraLen == 3      \* longest phoneme string handed to mora_to_text
MaxPhrases == 3      \* most accent phrases the Segmenter yields for one text
NumRequests == 2     \* requests in flight at once

-----------------------------------------------------------------------------
(* Optional values and strings.                                            *)

None == <<>>

Some(v) == <<v>>

\* Python's s[-1:]: the last character, or "" for the empty string.
LastChar(s) == IF Len(s) = 0 THEN "" ELSE SubSeq(s, Len(s), Len(s))

\* Python's s[:-1]: all but the last character.
ButLast(s) == IF Len(s) <= 1 THEN "" ELSE SubSeq(s, 1, Len(s) - 1)

\* Python's s[:1] and s[1:].
FirstChar(s) == IF Len(s) = 0 THEN "" ELSE SubSeq(s, 1, 1)

Rest(s) == IF Len(s) <= 1 THEN "" ELSE SubSeq(s, 2, Len(s))

\* str.lower on one of the five devoiced vowel letters.
lower(c) ==
    CASE c = "A" -> "a"
      [] c = "I" -> "i"
      [] c = "U" -> "u"
      [] c = "E" -> "e"
      [] c = "O" -> "o"
      [] OTHER -> c

Whitespace == {" ", "\t", "\n"}

RECURSIVE lstrip(_)
lstrip(s) == IF Len(s) > 0 /\ FirstChar(s) \in Whitespace THEN lstrip(Rest(s)) ELSE s

RECURSIVE rstrip(_)
rstrip(s) == IF Len(s) > 0 /\ LastChar(s) \in Whitespace THEN rstrip(ButLast(s)) ELSE s

\* str.strip()
strip(s) == rstrip(lstrip(s))

-----------------------------------------------------------------------------
(* The mora lexicon and mora_to_text.                                      *)

\* A part of voicevox_engine.mora_list.openjtalk_mora2text: phoneme string
\* -> glyph.
openjtalk_mora2text ==
    [k \in {"a", "i", "u", "o", "ka", "ki", "su", "kyo", "N", "cl"} |->
        CASE k = "a" -> "<A>"
          [] k = "i" -> "<I>"
          [] k = "u" -> "<U>"
          [] k = "o" -> "<O>"
          [] k = "ka" -> "<KA>"
          [] k = "ki" -> "<KI>"
          [] k = "su" -> "<SU>"
          [] k = "kyo" -> "<KYO>"
          [] k = "N" -> "<N>"
          [] k = "cl" -> "<CL>"]

DevoicedVowels == {"A", "I", "U", "E", "O"}

\* (mutant) the devoiced vowel is looked up as it is.
Normalized_NoDevoicing(mora) == mora

\* Lines 46-48: a trailing devoiced vowel letter is put in lowercase.
Normalized(mora) ==
    IF LastChar(mora) \in DevoicedVowels
    THEN ButLast(mora) \o lower(LastChar(mora))
    ELSE mora

\* (mutant) a string without a lexicon entry is an error.
mora_to_text_Strict(mora) ==
    IF Normalized(mora) \in DOMAIN openjtalk_mora2text
    THEN [raised |-> None, value |-> openjtalk_mora2text[Normalized(mora)]]
    ELSE [raised |-> Some("KeyError"), value |-> ""]

\* mora_to_text: the result, with the exception it raises (never one).
mora_to_text(mora) ==
    IF Normalized(mora) \in DOMAIN openjtalk_mora2text
    THEN [raised |-> None, value |-> openjtalk_mora2text[Normalized(mora)]]
    ELSE [raised |-> None, value |-> Normalized(mora)]

-----------------------------------------------------------------------------
(* What the Segmenter (extract_full_context_label) yields: an utterance of *)
(* breath groups, each of accent phrases, each of moras that carry phoneme *)
(* identities only.                                                        *)

\* The phonemes the moras of a segmented phrase cycle through; "vE" has no
\* lexicon entry, "sU" is a devoiced mora.
MoraCycle ==
    << [consonant |-> None,       vowel |-> "a"],
       [consonant |-> Some("k"),  vowel |-> "a"],
       [consonant |-> Some("s"),  vowel |-> "U"],
       [consonant |-> None,       vowel |-> "N"],
       [consonant |-> Some("ky"), vowel |-> "o"],
       [consonant |-> Some("v"),  vowel |-> "E"],
       [consonant |-> None,       vowel |-> "cl"] >>

\* A segmented accent phrase of n moras with its accent at mora a.
LabelPhrase(n, a) ==
    [moras |-> [i \in 1..n |-> MoraCycle[((i - 1) % Len(MoraCycle)) + 1]],
     accent |-> a]

\* The phrases the Segmenter may yield here: 10, 90 and 95 moras, so that
\* running counts of exactly 100 (10 + 90) and above 100 both occur.
LabelPhrases == {LabelPhrase(10, 3), LabelPhrase(90, 1), LabelPhrase(95, 95)}

\* Breath groups of 1..n accent phrases.
RECURSIVE PhraseSeqs(_)
PhraseSeqs(n) ==
    IF n = 0 THEN {<<>>}
    ELSE LET shorter == PhraseSeqs(n - 1)
         IN shorter \cup {<<p>> \o s : p \in LabelPhrases,
                                      s \in {t \in shorter : Len(t) = n - 1}}

BreathGroups(n) == {[accent_phrases |-> s] : s \in PhraseSeqs(n) \ {<<>>}}

NumPhrases(groups) ==
    LET RECURSIVE Sum(_)
        Sum(k) == IF k = 0 THEN 0 ELSE Len(groups[k].accent_phrases) + Sum(k - 1)
    IN Sum(Len(groups))

\* Sequences of breath groups holding at most n accent phrases in all.
RECURSIVE GroupSeqs(_)
GroupSeqs(n) ==
    IF n = 0 THEN {<<>>}
    ELSE {<<>>} \cup
         UNION {{<<g>> \o rest : rest \in {t \in GroupSeqs(n - 1) :
                                           NumPhrases(t) + Len(g.accent_phrases) <= n}}
                : g \in BreathGroups(n)}

Utterances == {[breath_groups |-> gs] : gs \in GroupSeqs(MaxPhrases)}

\* What the Segmenter yields for the texts sent to /tts: up to two breath
\* groups (the helpers are run on every utterance).
TtsUtterances == {u \in Utterances : Len(u.breath_groups) <= 2}

Texts == {"", " \t", " a "}

Speakers == {0, 1}

\* mora.phonemes of the segmenter's Mora: the consonant, if any, then the vowel.
phonemes(mora) ==
    IF mora.consonant = None THEN <<mora.vowel>> ELSE <<mora.consonant[1], mora.vowel>>

\* "".join(...)
RECURSIVE join(_)
join(strs) == IF Len(strs) = 0 THEN "" ELSE Head(strs) \o join(Tail(strs))

\* extract_full_context_label(text): the Segmenter's answer for the text.
extract_full_context_label(text, label) == label

-----------------------------------------------------------------------------
(* create_accent_phrases, lines 98-149.                                    *)

\* (mutant) consonant_length is 0 whether or not there is a consonant.
PlaceholderMora_AlwaysLength(mora) ==
    [text |-> mora_to_text(join(phonemes(mora))).value,
     consonant |-> IF mora.consonant # None THEN Some(mora.consonant[1]) ELSE None,
     consonant_length |-> Some(0),
     vowel |-> mora.vowel,
     vowel_length |-> 0,
     pitch |-> 0]

\* Lines 110-123: the Mora built for a segmented mora, before the Filler.
PlaceholderMora(mora) ==
    [text |-> mora_to_text(join(phonemes(mora))).value,
     consonant |-> IF mora.consonant # None THEN Some(mora.consonant[1]) ELSE None,
     consonant_length |-> IF mora.consonant # None THEN Some(0) ELSE None,
     vowel |-> mora.vowel,
     vowel_length |-> 0,
     pitch |-> 0]

\* Lines 128-135: the pause mora.
PauseMora ==
    [text |-> ",",
     consonant |-> None,
     consonant_length |-> None,
     vowel |-> "pau",
     vowel_length |-> 0,
     pitch |-> 0]

\* (mutant) every breath group's last phrase gets a pause, the final one too.
HasPauseMora_EveryGroup(i_accent_phrase, n_accent_phrases, i_breath_group, n_breath_groups) ==
    i_accent_phrase = n_accent_phrases - 1

\* Lines 136-139: the condition under which a phrase gets a pause mora
\* (indices from 0, as enumerate gives them).
HasPauseMora(i_accent_phrase, n_accent_phrases, i_breath_group, n_breath_groups) ==
    /\ i_accent_phrase = n_accent_phrases - 1
    /\ i_breath_group # n_breath_groups - 1

\* Lines 108-142: the AccentPhrase built for one segmented phrase.
PlaceholderPhrase(utterance, i_breath_group, i_accent_phrase) ==
    LET breath_group == utterance.breath_groups[i_breath_group + 1]
        accent_phrase == breath_group.accent_phrases[i_accent_phrase + 1]
    IN [moras |-> [k \in 1..Len(accent_phrase.moras) |->
                       PlaceholderMora(accent_phrase.moras[k])],
        accent |-> accent_phrase.accent,
        pause_mora |->
            IF HasPauseMora(i_accent_phrase, Len(breath_group.accent_phrases),
                            i_breath_group, Len(utterance.breath_groups))
            THEN Some(PauseMora) ELSE None]

\* Lines 107-147: the list comprehension over breath groups and, within
\* each, over accent phrases.
RECURSIVE PlaceholderPhrasesFrom(_, _)
PlaceholderPhrasesFrom(utterance, i_breath_group) ==
    IF i_breath_group >= Len(utterance.breath_groups) THEN <<>>
    ELSE LET n == Len(utterance.breath_groups[i_breath_group + 1].accent_phrases)
         IN [i \in 1..n |-> PlaceholderPhrase(utterance, i_breath_group, i - 1)]
            \o PlaceholderPhrasesFrom(utterance, i_breath_group + 1)

PlaceholderPhrases(utterance) == PlaceholderPhrasesFrom(utterance, 0)

\* The Filler's two passes, durations and then pitches, keyed by the
\* speaker: only consonant_length, vowel_length and pitch change.
IsUnvoiced(vowel) == vowel \in DevoicedVowels \cup {"pau", "cl"}

FilledMora(mora, speaker_id) ==
    [mora EXCEPT !.consonant_length = IF mora.consonant # None THEN Some(5) ELSE None,
                 !.vowel_length = 10,
                 !.pitch = IF IsUnvoiced(mora.vowel) THEN 0 ELSE 50 + speaker_id]

replace_mora_data(phrases, speaker_id) ==
    [i \in 1..Len(phrases) |->
        [moras |-> [k \in 1..Len(phrases[i].moras) |->
                        FilledMora(phrases[i].moras[k], speaker_id)],
         accent |-> phrases[i].accent,
         pause_mora |-> IF phrases[i].pause_mora = None THEN None
                        ELSE Some(FilledMora(phrases[i].pause_mora[1], speaker_id))]]

\* (mutant) blank text is handed to the Segmenter like any other.
IsBlank_Never(text) == FALSE

\* Line 99: len(text.strip()) == 0
IsBlank(text) == Len(strip(text)) = 0

\* create_accent_phrases(text, speaker_id): the list returned, with the
\* texts it handed to the Segmenter and the lists it handed to the Filler.
create_accent_phrases(text, speaker_id, label) ==
    IF IsBlank(text)
    THEN [value |-> <<>>, segment_calls |-> <<>>, filler_calls |-> <<>>]
    ELSE LET utterance == extract_full_context_label(text, label)
         IN IF Len(utterance.breath_groups) = 0
            THEN [value |-> <<>>, segment_calls |-> <<text>>, filler_calls |-> <<>>]
            ELSE [value |-> replace_mora_data(PlaceholderPhrases(utterance), speaker_id),
                  segment_calls |-> <<text>>,
                  filler_calls |-> <<PlaceholderPhrases(utterance)>>]

\* engine.create_accent_phrases of line 197: the engine's method, the same
\* pipeline as the function above.
engine_create_accent_phrases(text, speaker_id, label) ==
    create_accent_phrases(text, speaker_id, label)

-----------------------------------------------------------------------------
(* The Encoder (voicevox_engine.kana_parser.create_kana).                  *)

RECURSIVE MoraGlyphs(_, _, _)
MoraGlyphs(moras, accent, k) ==
    IF k > Len(moras) THEN ""
    ELSE moras[k].text \o (IF k = accent THEN "'" ELSE "")
         \o MoraGlyphs(moras, accent, k + 1)

RECURSIVE create_kana(_)
create_kana(phrases) ==
    IF Len(phrases) = 0 THEN ""
    ELSE MoraGlyphs(Head(phrases).moras, Head(phrases).accent, 1)
         \o (IF Head(phrases).pause_mora # None THEN "," ELSE "")
         \o create_kana(Tail(phrases))

-----------------------------------------------------------------------------
(* The application: generate_app's arguments and get_engine.               *)

kMoraLimit == 100

enable_interrogative_upspeak == TRUE

CoreVersions == {"0.12.0", "0.13.0"}

\* A synthesis engine, as far as this file reads it.
EngineOf(version) ==
    [core_version |-> version,
     default_sampling_rate |-> IF version = "0.12.0" THEN 24000 ELSE 48000,
     speakers |-> "speakers of " \o version]

\* Line 273: the greatest version among the engines.
LatestOf(versions) == IF "0.13.0" \in versions THEN "0.13.0" ELSE "0.12.0"

\* Line 60
default_sampling_rate == synthesis_engines[latest_core_version].default_sampling_rate

\* (mutant) an unknown version falls back to the latest engine.
get_engine_Fallback(version) ==
    IF version = None
    THEN [raised |-> None, value |-> Some(synthesis_engines[latest_core_version])]
    ELSE IF version[1] \in DOMAIN synthesis_engines
         THEN [raised |-> None, value |-> Some(synthesis_engines[version[1]])]
         ELSE [raised |-> None, value |-> Some(synthesis_engines[latest_core_version])]

\* get_engine, lines 80-85: the engine returned, or the HTTP status raised.
get_engine(version) ==
    IF version = None
    THEN [raised |-> None, value |-> Some(synthesis_engines[latest_core_version])]
    ELSE IF version[1] \in DOMAIN synthesis_engines
         THEN [raised |-> None, value |-> Some(synthesis_engines[version[1]])]
         ELSE [raised |-> Some(422), value |-> None]

-----------------------------------------------------------------------------
(* The requests.                                                           *)

Requests == 1..NumRequests

NoBody == [text |-> "", speaker |-> 0, speed |-> 1]

NoLabel == [breath_groups |-> <<>>]

\* The bodies of the one-at-a-time runs: a blank text and one with words.
TtsBodies == {[text |-> " \t", speaker |-> 0, speed |-> 1],
              [text |-> " a ", speaker |-> 1, speed |-> 1]}

\* The requests of the concurrent runs: 90 + 10 moras (all kept) and
\* 10 + 95 (the second dropped).
ConcurrentInputs ==
    { <<[text |-> "ab", speaker |-> 0, speed |-> 1],
        [breath_groups |-> <<[accent_phrases |-> <<LabelPhrase(90, 1), LabelPhrase(10, 3)>>]>>]>>,
      <<[text |-> " a ", speaker |-> 1, speed |-> 1],
        [breath_groups |-> <<[accent_phrases |-> <<LabelPhrase(10, 3)>>],
                             [accent_phrases |-> <<LabelPhrase(95, 95)>>]>>]>> }

SpeakersQueries == {None, Some("0.12.0"), Some("0.13.0"), Some("9.9.9")}

ConcurrentSpeakersQueries == {None, Some("9.9.9")}

\* (mutant) one accumulator for the whole module: a store is seen by every
\* request.
StoreMoraLength_Shared(lengths, r, v) == [q \in DOMAIN lengths |-> v]

\* Lines 199 and 201: mora_length is a local of the request's own call.
StoreMoraLength(lengths, r, v) == [lengths EXCEPT ![r] = v]

\* (mutant) the phrase that reaches the limit is dropped too.
OverLimit_AtLimit(n) == n >= kMoraLimit

\* Line 202
OverLimit(n) == n > kMoraLimit

\* (mutant) the query is built from the untruncated list.
AudioQueryOf_Untruncated(trunc_, accent_phrases_, speed, rate) ==
    [accent_phrases |-> accent_phrases_,
     speedScale |-> speed,
     pitchScale |-> 0,
     intonationScale |-> 1,
     volumeScale |-> "1.2",
     prePhonemeLength |-> "0.15",
     postPhonemeLength |-> "0.1",
     outputSamplingRate |-> rate,
     outputStereo |-> FALSE,
     kana |-> create_kana(accent_phrases_)]

\* Lines 207-218: the AudioQuery of tts.
AudioQueryOf(trunc_, accent_phrases_, speed, rate) ==
    [accent_phrases |-> trunc_,
     speedScale |-> speed,
     pitchScale |-> 0,
     intonationScale |-> 1,
     volumeScale |-> "1.2",
     prePhonemeLength |-> "0.15",
     postPhonemeLength |-> "0.1",
     outputSamplingRate |-> rate,
     outputStereo |-> FALSE,
     kana |-> create_kana(accent_phrases_)]

\* Lines 264-273: the engines made at startup (at least one) and the
\* latest of their versions.
InitApp(versions) ==
    /\ synthesis_engines = [v \in versions |-> EngineOf(v)]
    /\ latest_core_version = LatestOf(versions)

InitRequests ==
    /\ pc = [r \in Requests |-> "idle"]
    /\ kind = [r \in Requests |-> "none"]
    /\ body = [r \in Requests |-> NoBody]
    /\ full_context_label = [r \in Requests |-> NoLabel]
    /\ core_version = [r \in Requests |-> None]
    /\ engine = [r \in Requests |-> None]
    /\ accent_phrases = [r \in Requests |-> <<>>]
    /\ trunc = [r \in Requests |-> <<>>]
    /\ mora_length = [r \in Requests |-> 0]
    /\ cursor = [r \in Requests |-> 0]
    /\ query = [r \in Requests |-> None]
    /\ segment_calls = [r \in Requests |-> <<>>]
    /\ filler_calls = [r \in Requests |-> <<>>]
    /\ synthesis_calls = [r \in Requests |-> <<>>]
    /\ status = [r \in Requests |-> 0]

NoCall == [fn |-> "none", arg |-> <<>>, ret |-> <<>>]

Init ==
    /\ \E versions \in (SUBSET CoreVersions) \ {{}} : InitApp(versions)
    /\ InitRequests
    /\ call = NoCall

\* The application started with both engines.
InitBoth == InitApp(CoreVersions) /\ InitRequests /\ call = NoCall

\* A request arrives at POST /tts; the locals of its call are fresh.
ReceiveTts(r, b, l) ==
    /\ pc[r] = "idle"
    /\ pc' = [pc EXCEPT ![r] = "tts_create"]
    /\ kind' = [kind EXCEPT ![r] = "tts"]
    /\ body' = [body EXCEPT ![r] = b]
    /\ full_context_label' = [full_context_label EXCEPT ![r] = l]
    /\ UNCHANGED <<core_version, engine, accent_phrases, trunc, mora_length, cursor,
                   query, segment_calls, filler_calls, synthesis_calls, status>>
    /\ UNCHANGED <<app_vars, call>>

\* tts, lines 194-199: the engine, its accent phrases, the empty accumulators.
TtsCreate(r) ==
    /\ pc[r] = "tts_create"
    /\ LET got == get_engine(None)
           made == engine_create_accent_phrases(body[r].text, body[r].speaker, full_context_label[r])
       IN /\ engine' = [engine EXCEPT ![r] = got.value]
          /\ accent_phrases' = [accent_phrases EXCEPT ![r] = made.value]
          /\ segment_calls' = [segment_calls EXCEPT ![r] = made.segment_calls]
          /\ filler_calls' = [filler_calls EXCEPT ![r] = made.filler_calls]
    /\ trunc' = [trunc EXCEPT ![r] = <<>>]
    /\ mora_length' = StoreMoraLength(mora_length, r, 0)
    /\ cursor' = [cursor EXCEPT ![r] = 0]
    /\ pc' = [pc EXCEPT ![r] = "tts_loop"]
    /\ UNCHANGED <<kind, body, full_context_label, core_version, query, synthesis_calls, status>>
    /\ UNCHANGED <<app_vars, call>>

\* tts, lines 200-204: one pass of the for loop that keeps the phrase.
TtsLoopAppend(r) ==
    /\ pc[r] = "tts_loop"
    /\ cursor[r] < Len(accent_phrases[r])
    /\ LET accent == accent_phrases[r][cursor[r] + 1]
           n == mora_length[r] + Len(accent.moras)
       IN /\ ~OverLimit(n)
          /\ mora_length' = StoreMoraLength(mora_length, r, n)
          /\ trunc' = [trunc EXCEPT ![r] = Append(@, accent)]
    /\ cursor' = [cursor EXCEPT ![r] = @ + 1]
    /\ UNCHANGED <<pc, kind, body, full_context_label, core_version, engine, accent_phrases, query,
                   segment_calls, filler_calls, synthesis_calls, status>>
    /\ UNCHANGED <<app_vars, call>>

\* tts, lines 200-203: the pass of the for loop that breaks.
TtsLoopBreak(r) ==
    /\ pc[r] = "tts_loop"
    /\ cursor[r] < Len(accent_phrases[r])
    /\ LET accent == accent_phrases[r][cursor[r] + 1]
           n == mora_length[r] + Len(accent.moras)
       IN /\ OverLimit(n)
          /\ mora_length' = StoreMoraLength(mora_length, r, n)
    /\ pc' = [pc EXCEPT ![r] = "tts_query"]
    /\ UNCHANGED <<kind, body, full_context_label, core_version, engine, accent_phrases, trunc, cursor,
                   query, segment_calls, filler_calls, synthesis_calls, status>>
    /\ UNCHANGED <<app_vars, call>>

\* tts, line 200: the list is exhausted.
TtsLoopEnd(r) ==
    /\ pc[r] = "tts_loop"
    /\ cursor[r] >= Len(accent_phrases[r])
    /\ pc' = [pc EXCEPT ![r] = "tts_query"]
    /\ UNCHANGED <<kind, body, full_context_label, core_version, engine, accent_phrases, trunc,
                   mora_length, cursor, query, segment_calls, filler_calls,
                   synthesis_calls, status>>
    /\ UNCHANGED <<app_vars, call>>

\* tts, lines 205-218: the AudioQuery.
TtsQuery(r) ==
    /\ pc[r] = "tts_query"
    /\ query' = [query EXCEPT ![r] =
                    Some(AudioQueryOf(trunc[r], accent_phrases[r], body[r].speed,
                                      default_sampling_rate))]
    /\ pc' = [pc EXCEPT ![r] = "tts_synthesis"]
    /\ UNCHANGED <<kind, body, full_context_label, core_version, engine, accent_phrases, trunc,
                   mora_length, cursor, segment_calls, filler_calls, synthesis_calls,
                   status>>
    /\ UNCHANGED <<app_vars, call>>

\* tts, line 219: the query is handed to engine.synthesis.
TtsSynthesis(r) ==
    /\ pc[r] = "tts_synthesis"
    /\ synthesis_calls' = [synthesis_calls EXCEPT ![r] =
            Append(@, [query |-> query[r][1],
                       speaker_id |-> body[r].speaker,
                       enable_interrogative_upspeak |-> enable_interrogative_upspeak])]
    /\ pc' = [pc EXCEPT ![r] = "tts_respond"]
    /\ UNCHANGED <<kind, body, full_context_label, core_version, engine, accent_phrases, trunc,
                   mora_length, cursor, query, segment_calls, filler_calls, status>>
    /\ UNCHANGED <<app_vars, call>>

\* tts, lines 221-226: the wave is written out and returned.
TtsRespond(r) ==
    /\ pc[r] = "tts_respond"
    /\ status' = [status EXCEPT ![r] = 200]
    /\ pc' = [pc EXCEPT ![r] = "done"]
    /\ UNCHANGED <<kind, body, full_context_label, core_version, engine, accent_phrases, trunc,
                   mora_length, cursor, query, segment_calls, filler_calls,
                   synthesis_calls>>
    /\ UNCHANGED <<app_vars, call>>

\* GET /speakers, lines 233-240.
Speakers_(r, version) ==
    /\ pc[r] = "idle"
    /\ kind' = [kind EXCEPT ![r] = "speakers"]
    /\ core_version' = [core_version EXCEPT ![r] = version]
    /\ LET got == get_engine(version)
       IN /\ engine' = [engine EXCEPT ![r] = got.value]
          /\ status' = [status EXCEPT ![r] = IF got.raised = None THEN 200 ELSE got.raised[1]]
    /\ pc' = [pc EXCEPT ![r] = "done"]
    /\ UNCHANGED <<body, full_context_label, accent_phrases, trunc, mora_length, cursor, query,
                   segment_calls, filler_calls, synthesis_calls>>
    /\ UNCHANGED <<app_vars, call>>

\* The response has gone out: the call's locals are gone with it.
Finish(r) ==
    /\ pc[r] = "done"
    /\ pc' = [pc EXCEPT ![r] = "idle"]
    /\ kind' = [kind EXCEPT ![r] = "none"]
    /\ body' = [body EXCEPT ![r] = NoBody]
    /\ full_context_label' = [full_context_label EXCEPT ![r] = NoLabel]
    /\ core_version' = [core_version EXCEPT ![r] = None]
    /\ engine' = [engine EXCEPT ![r] = None]
    /\ accent_phrases' = [accent_phrases EXCEPT ![r] = <<>>]
    /\ trunc' = [trunc EXCEPT ![r] = <<>>]
    /\ mora_length' = [mora_length EXCEPT ![r] = 0]
    /\ cursor' = [cursor EXCEPT ![r] = 0]
    /\ query' = [query EXCEPT ![r] = None]
    /\ segment_calls' = [segment_calls EXCEPT ![r] = <<>>]
    /\ filler_calls' = [filler_calls EXCEPT ![r] = <<>>]
    /\ synthesis_calls' = [synthesis_calls EXCEPT ![r] = <<>>]
    /\ status' = [status EXCEPT ![r] = 0]
    /\ UNCHANGED <<app_vars, call>>

\* One request at a time: the handlers of request 1 alone.
Next ==
    \/ \E b \in TtsBodies, l \in TtsUtterances : ReceiveTts(1, b, l)
    \/ TtsCreate(1)
    \/ TtsLoopAppend(1)
    \/ TtsLoopBreak(1)
    \/ TtsLoopEnd(1)
    \/ TtsQuery(1)
    \/ TtsSynthesis(1)
    \/ TtsRespond(1)
    \/ \E version \in SpeakersQueries : Speakers_(1, version)
    \/ Finish(1)

Spec == Init /\ [][Next]_vars

\* Requests served at once, the threads interleaved statement by statement.
NextConcurrent ==
    \E r \in Requests :
        \/ \E input \in ConcurrentInputs : ReceiveTts(r, input[1], input[2])
        \/ TtsCreate(r)
        \/ TtsLoopAppend(r)
        \/ TtsLoopBreak(r)
        \/ TtsLoopEnd(r)
        \/ TtsQuery(r)
        \/ TtsSynthesis(r)
        \/ TtsRespond(r)
        \/ \E version \in ConcurrentSpeakersQueries : Speakers_(r, version)
        \/ Finish(r)

SpecConcurrent == InitBoth /\ [][NextConcurrent]_vars

-----------------------------------------------------------------------------
(* The helpers called on their own.                                        *)

MoraChars == {"a", "A", "k", "I", "x"}

RECURSIVE StringsUpTo(_)
StringsUpTo(n) ==
    IF n = 0 THEN {""}
    ELSE LET shorter == StringsUpTo(n - 1)
         IN shorter \cup {s \o c : s \in shorter, c \in MoraChars}

MoraStrings == StringsUpTo(MaxMoraLen)

CallMoraToText(mora) ==
    /\ call = NoCall
    /\ call' = [fn |-> "mora_to_text", arg |-> mora, ret |-> mora_to_text(mora)]
    /\ UNCHANGED <<app_vars, request_vars>>

CallCreateAccentPhrases(text, speaker_id, utterance) ==
    /\ call = NoCall
    /\ call' = [fn |-> "create_accent_phrases",
                arg |-> [text |-> text, speaker_id |-> speaker_id, label |-> utterance],
                ret |-> create_accent_phrases(text, speaker_id, utterance)]
    /\ UNCHANGED <<app_vars, request_vars>>

Return ==
    /\ call # NoCall
    /\ call' = NoCall
    /\ UNCHANGED <<app_vars, request_vars>>

NextPure ==
    \/ \E mora \in MoraStrings : CallMoraToText(mora)
    \/ \E text \in Texts, speaker_id \in Speakers, utterance \in Utterances :
           CallCreateAccentPhrases(text, speaker_id, utterance)
    \/ Return

SpecPure == InitBoth /\ [][NextPure]_vars

-----------------------------------------------------------------------------
(* What the claims are stated with.                                        *)

TtsRequests == {r \in Requests : kind[r] = "tts"}

AfterLoop == {"tts_query", "tts_synthesis", "tts_respond", "done"}

AfterQuery == {"tts_synthesis", "tts_respond", "done"}

\* The moras of the first k phrases.
RECURSIVE MoraCount(_, _)
MoraCount(phrases, k) ==
    IF k = 0 THEN 0 ELSE Len(phrases[k].moras) + MoraCount(phrases, k - 1)

\* The longest prefix whose moras number at most kMoraLimit.
LongestPrefix(phrases) ==
    LET fitting == {k \in 0..Len(phrases) : MoraCount(phrases, k) <= kMoraLimit}
        longest == CHOOSE k \in fitting : \A j \in fitting : j <= k
    IN SubSeq(phrases, 1, longest)

MoraCounts(phrases) == [i \in 1..Len(phrases) |-> Len(phrases[i].moras)]

\* Every character of the text is whitespace.
OnlyWhitespace(text) == \A i \in 1..Len(text) : SubSeq(text, i, i) \in Whitespace

\* The string with its last letter, if one of A I U E O, in lowercase.
LowercasedFinal(s) ==
    IF Len(s) = 0 THEN s
    ELSE LET last == SubSeq(s, Len(s), Len(s))
             low == IF last = "A" THEN "a" ELSE IF last = "I" THEN "i"
                    ELSE IF last = "U" THEN "u" ELSE IF last = "E" THEN "e"
                    ELSE IF last = "O" THEN "o" ELSE last
         IN (IF Len(s) = 1 THEN "" ELSE SubSeq(s, 1, Len(s) - 1)) \o low

EndsDevoiced(s) == Len(s) > 0 /\ SubSeq(s, Len(s), Len(s)) \in {"A", "I", "U", "E", "O"}

\* The phrases of the groups before group g (g from 1).
RECURSIVE PhrasesBefore(_, _)
PhrasesBefore(groups, g) ==
    IF g <= 1 THEN 0
    ELSE Len(groups[g - 1].accent_phrases) + PhrasesBefore(groups, g - 1)

\* The moras of a phrase list, its pause moras included.
AllMoras(phrases) ==
    UNION {{phrases[i].moras[k] : k \in 1..Len(phrases[i].moras)}
           \cup (IF phrases[i].pause_mora = None THEN {} ELSE {phrases[i].pause_mora[1]})
           : i \in 1..Len(phrases)}

PauseMoras(phrases) ==
    {phrases[i].pause_mora[1] : i \in {j \in 1..Len(phrases) : phrases[j].pause_mora # None}}

\* The call under test is create_accent_phrases and it built a phrase list.
BuiltPhrases ==
    /\ call.fn = "create_accent_phrases"
    /\ Len(call.ret.filler_calls) > 0

-----------------------------------------------------------------------------
(* C1: when the loop of tts is over, trunc is exactly the longest prefix   *)
(* of the phrases create_accent_phrases returned whose moras number at     *)
(* most kMoraLimit (the phrase that would exceed it is dropped with all    *)
(* later ones, also those that would fit), and no error status is set.     *)
C1_TruncIsLongestPrefix ==
    \A r \in TtsRequests :
        /\ pc[r] = "tts_loop" =>
              /\ trunc[r] = SubSeq(accent_phrases[r], 1, cursor[r])
              /\ mora_length[r] = MoraCount(accent_phrases[r], cursor[r])
              /\ mora_length[r] <= kMoraLimit
        /\ pc[r] \in AfterLoop =>
              /\ trunc[r] = LongestPrefix(accent_phrases[r])
              /\ status[r] \in {0, 200}

\* Phrases of 10, 95 and 10 moras: only the first is kept, though the third
\* would fit.
C1_Witness ==
    \E r \in TtsRequests :
        /\ pc[r] = "tts_query"
        /\ MoraCounts(accent_phrases[r]) = <<10, 95, 10>>
        /\ MoraCounts(trunc[r]) = <<10>>

(* C2: the kana of every query tts builds is create_kana of the phrases    *)
(* stored in that query's accent_phrases.                                  *)
C2_KanaOfStoredPhrases ==
    \A r \in TtsRequests :
        query[r] # None => query[r][1].kana = create_kana(query[r][1].accent_phrases)

(* C4: a text that is empty or all whitespace gives no accent phrases,     *)
(* with neither the Segmenter nor the Filler called; so does a text for    *)
(* which the Segmenter yields no breath group; in both cases the query     *)
(* has no accent phrases and the empty kana, and the request succeeds.     *)
C4_EmptyText ==
    \A r \in TtsRequests :
        LET blank == OnlyWhitespace(body[r].text)
            nothing == Len(full_context_label[r].breath_groups) = 0
        IN /\ (pc[r] # "tts_create" /\ blank) =>
                 /\ accent_phrases[r] = <<>>
                 /\ segment_calls[r] = <<>>
                 /\ filler_calls[r] = <<>>
           /\ (pc[r] # "tts_create" /\ ~blank /\ nothing) =>
                 /\ accent_phrases[r] = <<>>
                 /\ filler_calls[r] = <<>>
           /\ (pc[r] \in AfterQuery /\ (blank \/ nothing)) =>
                 /\ query[r][1].accent_phrases = <<>>
                 /\ query[r][1].kana = ""
           /\ (pc[r] = "done" /\ (blank \/ nothing)) => status[r] = 200

\* A whitespace text for which the Segmenter would have yielded phrases.
C4_Witness ==
    \E r \in TtsRequests :
        /\ pc[r] = "done"
        /\ body[r].text = " \t"
        /\ Len(full_context_label[r].breath_groups) > 0
        /\ query[r][1].accent_phrases = <<>>
        /\ query[r][1].kana = ""

C10_GetEngine ==
    /\ [](\A r \in Requests :
            /\ (kind[r] = "speakers" /\ pc[r] = "done") =>
                  /\ core_version[r] = None =>
                        /\ engine[r] = <<synthesis_engines[latest_core_version]>>
                        /\ status[r] = 200
                  /\ (core_version[r] # None
                        /\ core_version[r][1] \in DOMAIN synthesis_engines) =>
                        /\ engine[r] = <<synthesis_engines[core_version[r][1]]>>
                        /\ engine[r][1].core_version = core_version[r][1]
                        /\ status[r] = 200
                  /\ (core_version[r] # None
                        /\ core_version[r][1] \notin DOMAIN synthesis_engines) =>
                        /\ engine[r] = <<>>
                        /\ status[r] = 422
            /\ (kind[r] = "tts" /\ pc[r] # "tts_create") =>
                  engine[r] = <<synthesis_engines[latest_core_version]>>)
    /\ [][synthesis_engines' = synthesis_engines
            /\ latest_core_version' = latest_core_version]_vars

\* GET /speakers with a version no engine is registered under.
C10_Witness ==
    \E r \in Requests :
        /\ kind[r] = "speakers"
        /\ pc[r] = "done"
        /\ core_version[r] = <<"9.9.9">>
        /\ engine[r] = <<>>
        /\ status[r] = 422

-----------------------------------------------------------------------------
(* The claims about the helpers, under SpecPure.                           *)

(* C3: the list create_accent_phrases builds holds the Segmenter's phrases *)
(* in order, group after group, and a phrase has a pause_mora exactly when *)
(* it is the last phrase of its breath group and that group is not the     *)
(* last one; the list it returns has the pause moras at the same places.   *)
C3_PausePlacement ==
    BuiltPhrases =>
        LET groups == call.arg.label.breath_groups
            built == call.ret.filler_calls[1]
            returned == call.ret.value
        IN /\ Len(built) = NumPhrases(groups)
           /\ Len(returned) = Len(built)
           /\ \A g \in 1..Len(groups) :
                 \A j \in 1..Len(groups[g].accent_phrases) :
                    LET i == PhrasesBefore(groups, g) + j
                        last_of_group == j = Len(groups[g].accent_phrases)
                        final_group == g = Len(groups)
                    IN /\ built[i].accent = groups[g].accent_phrases[j].accent
                       /\ Len(built[i].moras) = Len(groups[g].accent_phrases[j].moras)
                       /\ (built[i].pause_mora # None) <=> (last_of_group /\ ~final_group)
                       /\ (returned[i].pause_mora # None) <=> (last_of_group /\ ~final_group)
           /\ Len(groups) = 1 => \A i \in 1..Len(built) : built[i].pause_mora = None

\* Two breath groups, the first of two phrases: the pause is on the second
\* phrase alone.
C3_Witness ==
    /\ BuiltPhrases
    /\ Len(call.arg.label.breath_groups) = 2
    /\ Len(call.arg.label.breath_groups[1].accent_phrases) = 2
    /\ Len(call.ret.filler_calls[1]) = 3
    /\ call.ret.filler_calls[1][1].pause_mora = None
    /\ call.ret.filler_calls[1][2].pause_mora # None
    /\ call.ret.filler_calls[1][3].pause_mora = None

(* C6, as claimed: mora_to_text never raises; with a lexicon entry for the *)
(* devoicing-normalized string the result is that entry, and without one   *)
(* the result is the phoneme string it was given.                          *)
C6_FallbackIsArgument ==
    call.fn = "mora_to_text" =>
        /\ call.ret.raised = None
        /\ LowercasedFinal(call.arg) \in DOMAIN openjtalk_mora2text =>
              call.ret.value = openjtalk_mora2text[LowercasedFinal(call.arg)]
        /\ LowercasedFinal(call.arg) \notin DOMAIN openjtalk_mora2text =>
              call.ret.value = call.arg

(* C6, amended: mora_to_text never raises; with a lexicon entry for the    *)
(* devoicing-normalized string the result is that entry, and without one   *)
(* the result is the devoicing-normalized string, which is the string      *)
(* given when that does not end in one of A, I, U, E, O.                   *)
C6_FallbackIsNormalized ==
    call.fn = "mora_to_text" =>
        /\ call.ret.raised = None
        /\ LowercasedFinal(call.arg) \in DOMAIN openjtalk_mora2text =>
              call.ret.value = openjtalk_mora2text[LowercasedFinal(call.arg)]
        /\ LowercasedFinal(call.arg) \notin DOMAIN openjtalk_mora2text =>
              /\ call.ret.value = LowercasedFinal(call.arg)
              /\ ~EndsDevoiced(call.arg) => call.ret.value = call.arg

\* A string without an entry that ends in a devoiced vowel.
C6_Witness ==
    /\ call.fn = "mora_to_text"
    /\ call.arg = "kkA"
    /\ call.ret.raised = None
    /\ call.ret.value = "kka"

(* C7: a phoneme string that ends in one of A, I, U, E, O gets the glyph   *)
(* of the string with that letter in lowercase; and every mora             *)
(* create_accent_phrases builds has pitch 0 when handed to the Filler.     *)
C7_Devoicing ==
    /\ (call.fn = "mora_to_text" /\ EndsDevoiced(call.arg)) =>
          call.ret.value = mora_to_text(LowercasedFinal(call.arg)).value
    /\ BuiltPhrases =>
          /\ \A m \in AllMoras(call.ret.filler_calls[1]) : m.pitch = 0
          /\ \A g \in 1..Len(call.arg.label.breath_groups) :
                \A j \in 1..Len(call.arg.label.breath_groups[g].accent_phrases) :
                   LET from == call.arg.label.breath_groups[g].accent_phrases[j].moras
                       to == call.ret.filler_calls[1]
                                 [PhrasesBefore(call.arg.label.breath_groups, g) + j].moras
                   IN \A k \in 1..Len(from) :
                         EndsDevoiced(from[k].vowel) =>
                            to[k].text = mora_to_text(
                                join(phonemes([from[k] EXCEPT
                                    !.vowel = LowercasedFinal(from[k].vowel)]))).value

\* The devoiced mora "sU" got the glyph of "su" and pitch 0.
C7_Witness ==
    /\ BuiltPhrases
    /\ \E m \in AllMoras(call.ret.filler_calls[1]) :
          /\ m.vowel = "U"
          /\ m.consonant = <<"s">>
          /\ m.text = "<SU>"
          /\ m.pitch = 0

(* C8: every Mora create_accent_phrases builds has a consonant_length      *)
(* exactly when it has a consonant; a pause mora has neither, its vowel is *)
(* "pau", its pitch 0 and its text the pause glyph.                        *)
C8_ConsonantLength ==
    BuiltPhrases =>
        /\ \A m \in AllMoras(call.ret.filler_calls[1]) :
              (m.consonant_length # None) <=> (m.consonant # None)
        /\ \A m \in PauseMoras(call.ret.filler_calls[1]) :
              /\ m.consonant = None
              /\ m.consonant_length = None
              /\ m.vowel = "pau"
              /\ m.pitch = 0
              /\ m.text = ","

\* A list with a pause mora, a mora with a consonant and one without.
C8_Witness ==
    /\ BuiltPhrases
    /\ PauseMoras(call.ret.filler_calls[1]) # {}
    /\ \E m \in AllMoras(call.ret.filler_calls[1]) :
          m.consonant # None /\ m.consonant_length = <<0>>
    /\ \E m \in AllMoras(call.ret.filler_calls[1]) :
          m.consonant = None /\ m.consonant_length = None /\ m.vowel # "pau"

-----------------------------------------------------------------------------
(* The claim about requests served at once, under SpecConcurrent.          *)

\* tts run on its own: the loop of lines 198-204.
RECURSIVE TruncAlone(_, _, _, _)
TruncAlone(phrases, i, kept, count) ==
    IF i > Len(phrases) THEN kept
    ELSE IF count + Len(phrases[i].moras) > kMoraLimit THEN kept
    ELSE TruncAlone(phrases, i + 1, Append(kept, phrases[i]),
                    count + Len(phrases[i].moras))

\* The query of a request that runs with no other request in flight.
QueryAlone(b, utterance) ==
    LET phrases == replace_mora_data(
                       IF OnlyWhitespace(b.text) THEN <<>>
                       ELSE PlaceholderPhrases(utterance), b.speaker)
    IN [accent_phrases |-> TruncAlone(phrases, 1, <<>>, 0),
        speedScale |-> b.speed,
        pitchScale |-> 0,
        intonationScale |-> 1,
        volumeScale |-> "1.2",
        prePhonemeLength |-> "0.15",
        postPhonemeLength |-> "0.1",
        outputSamplingRate |-> default_sampling_rate,
        outputStereo |-> FALSE,
        kana |-> create_kana(phrases)]

(* C9: whatever the interleaving of the requests in flight, the query of   *)
(* each is the query it builds when run alone, and so is the query handed  *)
(* to engine.synthesis for it.                                             *)
C9_RequestsIndependent ==
    \A r \in TtsRequests :
        /\ pc[r] \in AfterQuery =>
              query[r] = <<QueryAlone(body[r], full_context_label[r])>>
        /\ pc[r] \in {"tts_respond", "done"} =>
              /\ Len(synthesis_calls[r]) = 1
              /\ synthesis_calls[r][1].query = QueryAlone(body[r], full_context_label[r])
              /\ synthesis_calls[r][1].speaker_id = body[r].speaker

\* Two requests in the loop at once, each having counted moras, and both
\* come to the query each builds alone.
C9_Witness ==
    \E r1 \in TtsRequests, r2 \in TtsRequests :
        /\ r1 # r2
        /\ body[r1] # body[r2]
        /\ pc[r1] = "tts_synthesis"
        /\ pc[r2] = "tts_loop"
        /\ mora_length[r2] > 0
        /\ Len(trunc[r1]) > 0
        /\ query[r1] = <<QueryAlone(body[r1], full_context_label[r1])>>

====
